---- MODULE Spec2Model ----
(***************************************************************************)
(* Model of the text generation pipeline of rust-bert,                     *)
(* src/pipelines/generation.rs: the LanguageGenerator trait (generate,     *)
(* encode_prompt_text, enforce_repetition_penalty,                         *)
(* generate_no_beam_search) and its two implementors OpenAIGenerator and   *)
(* GPT2Generator.                                                          *)
(*                                                                         *)
(* Conventions.                                                            *)
(*  - Option<T> is a sequence: <<>> is None and <<x>> is Some(x).          *)
(*  - An f64 is an exact rational <<n, d>> in lowest terms with d > 0.     *)
(*  - A tensor of shape [rows, width] is a sequence of rows, each a        *)
(*    sequence; a logits tensor [rows, vocab] is a sequence of functions   *)
(*    from token ids to f64.                                               *)
(*  - The tokenizer and the language model are external to the file: the   *)
(*    prompt is given by its encoded ids, the forward pass by its outcome. *)
(*  - min_length, early_stopping, top_k and no_repeat_ngram_size are       *)
(*    accepted by generate and vocab_size, pad_token_id and past are       *)
(*    computed, but no statement that changes state reads them; they are   *)
(*    left out of the state.                                               *)
(***************************************************************************)
EXTENDS Integers, Sequences, FiniteSets

\* pc                 position in the call (see Init below)
\* cfg                the arguments of generate and the generator called
\* input_ids          the token batch, attention_mask its mask
\* batch_size, cur_len   the locals of generate / generate_no_beam_search
\* forward_calls      number of forward_t invocations of the call
\* steps              number of completed loop iterations
\* step_logits        next_token_logits as selected from the model output,
\* penalized_logits   after the repetition penalty stage,
\* next_token_logits  after the temperature stage
\* result             None before generate returns, Some(rows) after
VARIABLES pc, cfg, input_ids, attention_mask, batch_size, cur_len,
          forward_calls, steps, step_logits, penalized_logits,
          next_token_logits, result

vars == <<pc, cfg, input_ids, attention_mask, batch_size, cur_len,
          forward_calls, steps, step_logits, penalized_logits,
          next_token_logits, result>>

(***************************************************************************)
(* Bounds of the model.                                                    *)
(***************************************************************************)
MaxPromptLen == 2

MaxLength == 2

MaxBeams == 2

MaxReturn == 3

VocabSize == 2

MaxRows == 2

MaxHistory == 2

(***************************************************************************)
(* Option<T>.                                                              *)
(***************************************************************************)
NoneOpt == <<>>

Some(x) == <<x>>

IsSome(o) == Len(o) = 1

Unwrap(o) == o[1]

(***************************************************************************)
(* f64 values as exact rationals.                                          *)
(***************************************************************************)
Abs(n) == IF n < 0 THEN -n ELSE n

RECURSIVE GCD(_, _)
GCD(a, b) == IF b = 0 THEN a ELSE GCD(b, a % b)

Rat(n, d) ==
    LET g == GCD(Abs(n), Abs(d))
        s == IF d < 0 THEN -1 ELSE 1
    IN  <<(s * n) \div g, (s * d) \div g>>

Zero == Rat(0, 1)

One == Rat(1, 1)

RMul(a, b) == Rat(a[1] * b[1], a[2] * b[2])

RDiv(a, b) == Rat(a[1] * b[2], a[2] * b[1])

RLt(a, b) == a[1] * b[2] < b[1] * a[2]

RLe(a, b) == a[1] * b[2] <= b[1] * a[2]

(***************************************************************************)
(* Tensor helpers.                                                         *)
(***************************************************************************)
TokenIds == 0 .. (VocabSize - 1)

Repeat(row, n) == [i \in 1 .. n |-> row]

OnesLike(t) == [i \in 1 .. Len(t) |-> [j \in 1 .. Len(t[i]) |-> 1]]

NePad(t, pad) ==
    [i \in 1 .. Len(t) |-> [j \in 1 .. Len(t[i]) |-> IF t[i][j] # pad THEN 1 ELSE 0]]

\* size().last() of a [rows, width] tensor with at least one row
Width(t) == Len(t[1])

DivAll(logits, x) ==
    [i \in 1 .. Len(logits) |-> [t \in DOMAIN logits[i] |-> RDiv(logits[i][t], x)]]

(***************************************************************************)
(* The two generators: the special token ids resolved at construction.     *)
(***************************************************************************)
Generators == {"OpenAIGenerator", "GPT2Generator"}

\* tokenizer.vocab().token_to_id(Gpt2Vocab::bos_value())
Gpt2BosId == 50256

\* tokenizer.vocab().token_to_id(Gpt2Vocab::eos_value())
Gpt2EosId == 50256

get_bos_id(gen) == IF gen = "GPT2Generator" THEN Some(Gpt2BosId) ELSE NoneOpt

get_eos_ids(gen) == IF gen = "GPT2Generator" THEN Some(<<Gpt2EosId>>) ELSE NoneOpt

get_pad_id(gen) == NoneOpt

(***************************************************************************)
(* Prompt encoding.                                                        *)
(***************************************************************************)
\* rust_tokenizers::truncate_sequences(ids, None, n, LongestFirst, 0):
\* with a single sequence the n tokens are popped from its end.
truncate_sequences(token_ids, num_tokens_to_remove) ==
    SubSeq(token_ids, 1, Len(token_ids) - num_tokens_to_remove)

\* Tensor of shape [1, len]: the ids of the prompt cut to max_len.
encode_prompt_text(token_ids, max_len) ==
    LET num_truncated_tokens ==
            IF Len(token_ids) > max_len THEN Len(token_ids) - max_len ELSE 0
    IN  <<truncate_sequences(token_ids, num_truncated_tokens)>>

\* InitialInput with a missing bos replaced by token 0 instead of a panic.
InitialInput_DefaultBos(prompt, gen, max_length) ==
    IF IsSome(prompt)
    THEN Some(encode_prompt_text(Unwrap(prompt), max_length))
    ELSE IF IsSome(get_bos_id(gen))
         THEN Some(<<<<Unwrap(get_bos_id(gen))>>>>)
         ELSE Some(<<<<0>>>>)

\* The match at the head of generate: Some(tensor), or None for the panic
\* "A model with a BOS token must be used to start generation ...".
InitialInput(prompt, gen, max_length) ==
    IF IsSome(prompt)
    THEN Some(encode_prompt_text(Unwrap(prompt), max_length))
    ELSE IF IsSome(get_bos_id(gen))
         THEN Some(<<<<Unwrap(get_bos_id(gen))>>>>)
         ELSE NoneOpt

(***************************************************************************)
(* Configuration validation: the assertions of generate.                   *)
(***************************************************************************)
\* ValidConfiguration without the assertion of the beam branch
\* (num_beams >= num_return_sequences when not sampling with several beams).
ValidConfiguration_NoBeamCheck(c) ==
    /\ RLt(Zero, c.temperature)
    /\ RLe(Zero, c.top_p) /\ RLe(c.top_p, One)
    /\ RLe(One, c.repetition_penalty)
    /\ RLt(Zero, c.length_penalty)
    /\ c.num_return_sequences > 0
    /\ c.num_beams > 0
    /\ (~c.do_sample =>
            IF c.num_beams = 1
            THEN c.num_return_sequences = 1
            ELSE TRUE)

ValidConfiguration(c) ==
    /\ RLt(Zero, c.temperature)
    /\ RLe(Zero, c.top_p) /\ RLe(c.top_p, One)
    /\ RLe(One, c.repetition_penalty)
    /\ RLt(Zero, c.length_penalty)
    /\ c.num_return_sequences > 0
    /\ c.num_beams > 0
    /\ (~c.do_sample =>
            IF c.num_beams = 1
            THEN c.num_return_sequences = 1
            ELSE c.num_beams >= c.num_return_sequences)

(***************************************************************************)
(* Batch expansion.                                                        *)
(***************************************************************************)
\* (effective_batch_size, effective_batch_mult)
EffectiveBatch(do_sample, bsz, num_return_sequences) ==
    IF do_sample
    THEN <<bsz * num_return_sequences, num_return_sequences>>
    ELSE <<bsz, 1>>

\* The attention mask generate works with before expansion.
InitialMask(mask_in, gen, ids) ==
    IF IsSome(mask_in)
    THEN Unwrap(mask_in)
    ELSE IF IsSome(get_pad_id(gen))
         THEN NePad(ids, Unwrap(get_pad_id(gen)))
         ELSE OnesLike(ids)

\* t.unsqueeze(1).expand([bsz, copies, len], true).contiguous()
\*  .view((bsz * copies, len)) for a tensor t of shape [r, k]: the runtime
\* accepts the expansion when r is bsz or 1 and k is len or 1 (a dimension
\* of size 1 is broadcast), and fails otherwise. Some(tensor) or None.
ExpandView(t, bsz, copies, len) ==
    IF /\ Len(t) \in {bsz, 1}
       /\ \A i \in 1 .. Len(t) : Len(t[i]) \in {len, 1}
    THEN Some([r \in 1 .. (bsz * copies) |->
                 LET src == t[IF Len(t) = 1 THEN 1 ELSE ((r - 1) \div copies) + 1]
                 IN  [j \in 1 .. len |-> IF Len(src) = len THEN src[j] ELSE src[1]]])
    ELSE NoneOpt

\* ExpandBatch with the token batch expanded and the attention mask left as it was.
ExpandBatch_MaskNotExpanded(ids, mask, c) ==
    LET len  == Width(ids)
        bsz  == Len(ids)
        mult == EffectiveBatch(c.do_sample, bsz, c.num_return_sequences)[2]
    IN  IF (c.num_return_sequences > 1) \/ (c.num_beams > 1)
        THEN LET e_ids == ExpandView(ids, bsz, mult * c.num_beams, len)
             IN  IF IsSome(e_ids) THEN Some(<<Unwrap(e_ids), mask>>) ELSE NoneOpt
        ELSE Some(<<ids, mask>>)

\* The pair (input_ids, attention_mask) handed to the decoding loop, as
\* Some(<<ids, mask>>), or None when an expansion fails.
ExpandBatch(ids, mask, c) ==
    LET len  == Width(ids)
        bsz  == Len(ids)
        mult == EffectiveBatch(c.do_sample, bsz, c.num_return_sequences)[2]
    IN  IF (c.num_return_sequences > 1) \/ (c.num_beams > 1)
        THEN LET e_ids  == ExpandView(ids, bsz, mult * c.num_beams, len)
                 e_mask == ExpandView(mask, bsz, mult * c.num_beams, len)
             IN  IF IsSome(e_ids) /\ IsSome(e_mask)
                 THEN Some(<<Unwrap(e_ids), Unwrap(e_mask)>>)
                 ELSE NoneOpt
        ELSE Some(<<ids, mask>>)

(***************************************************************************)
(* Penalty and temperature stages of a decoding step.                      *)
(***************************************************************************)
\* The inner loop of enforce_repetition_penalty over the positions of one
\* row: each position reads the current logit of its token and writes the
\* scaled value back in place.
RECURSIVE PenalizePositions(_, _, _, _)
PenalizePositions(logit_row, prev_row, token_position, repetition_penalty) ==
    IF token_position > Len(prev_row)
    THEN logit_row
    ELSE LET token == prev_row[token_position]
             updated_value == logit_row[token]
         IN  PenalizePositions(
                 [logit_row EXCEPT ![token] =
                     IF RLt(updated_value, Zero)
                     THEN RMul(updated_value, repetition_penalty)
                     ELSE RDiv(updated_value, repetition_penalty)],
                 prev_row, token_position + 1, repetition_penalty)

\* Some(logits after the call), or None when the call panics.  The outer
\* loop runs i over 0 .. batch_size * num_beams: prev_output_tokens.get(i)
\* fails on a row the history does not have; the logits are indexed only
\* inside the loop over the positions of history row i, where double_value
\* fails on a row the logits do not have or on a token outside the
\* vocabulary (token ids are the non-negative ids of the vocabulary).
enforce_repetition_penalty(logits, bsz, num_beams, prev_output_tokens, repetition_penalty) ==
    IF /\ bsz * num_beams <= Len(prev_output_tokens)
       /\ \A i \in 1 .. (bsz * num_beams) :
             Len(prev_output_tokens[i]) > 0 =>
                 /\ i <= Len(logits)
                 /\ \A j \in 1 .. Len(prev_output_tokens[i]) :
                        prev_output_tokens[i][j] \in DOMAIN logits[i]
    THEN Some([i \in 1 .. Len(logits) |->
                 IF i <= bsz * num_beams
                 THEN PenalizePositions(logits[i], prev_output_tokens[i], 1,
                                        repetition_penalty)
                 ELSE logits[i]])
    ELSE NoneOpt

\* if repetition_penalty > 1 { self.enforce_repetition_penalty(.., batch_size, 1, &input_ids, ..) }
\* Some(logits), or None when enforce_repetition_penalty panics.
RepetitionPenaltyStage(logits, bsz, ids, repetition_penalty) ==
    IF RLt(One, repetition_penalty)
    THEN enforce_repetition_penalty(logits, bsz, 1, ids, repetition_penalty)
    ELSE Some(logits)

\* if do_sample { if temperature > 1 { next_token_logits = next_token_logits / temperature } }
TemperatureStage(logits, do_sample, temperature) ==
    IF do_sample /\ RLt(One, temperature)
    THEN DivAll(logits, temperature)
    ELSE logits

\* while cur_len < 1
LoopCondition(len, max_length) == len < 1

(***************************************************************************)
(* Inputs of a generate call.                                              *)
(***************************************************************************)
\* The encoded ids of a prompt of n tokens (the tokenizer is external).
PromptTokens(n) == [i \in 1 .. n |-> (i - 1) % VocabSize]

Prompts == {NoneOpt} \cup {Some(PromptTokens(n)) : n \in 0 .. MaxPromptLen}

\* Caller-supplied attention masks: none, or all-ones of some shape.
CallerMasks ==
    {NoneOpt} \cup
    {Some(Repeat([j \in 1 .. w |-> 1], r)) : r \in 1 .. MaxRows, w \in 0 .. MaxPromptLen}

TemperatureValues == {Rat(0, 1), Rat(1, 2), Rat(1, 1), Rat(2, 1)}

TopPValues == {Rat(-1, 2), Rat(0, 1), Rat(1, 1), Rat(3, 2)}

RepetitionPenaltyValues == {Rat(1, 2), Rat(1, 1), Rat(2, 1)}

LengthPenaltyValues == {Rat(0, 1), Rat(1, 1)}

LogitValues == {Rat(-2, 1), Rat(0, 1), Rat(4, 1)}

Configurations ==
    [generator : Generators,
     prompt_text : Prompts,
     max_length : 0 .. MaxLength,
     do_sample : BOOLEAN,
     num_beams : 0 .. MaxBeams,
     temperature : TemperatureValues,
     top_p : TopPValues,
     repetition_penalty : RepetitionPenaltyValues,
     length_penalty : LengthPenaltyValues,
     num_return_sequences : 0 .. MaxReturn,
     attention_mask : CallerMasks]

\* What the language model's forward pass can give back for one step: an
\* error or logits with an empty sequence dimension (None: the unwrap or the
\* select(1, -1) that follows panics), or last-position logits, one row per
\* row of the batch; the model is a function of its input, so equal rows of
\* the batch get equal logits.
ForwardOutcomes(ids) ==
    {NoneOpt} \cup
    {Some([i \in 1 .. Len(ids) |-> f[ids[i]]]) :
        f \in [{ids[i] : i \in 1 .. Len(ids)} -> [TokenIds -> LogitValues]]}

(***************************************************************************)
(* generate as a state machine.  pc is the position in the call:           *)
(*   idle -> encoded -> validated -> loop -> returned,                     *)
(* with each iteration of the loop of generate_no_beam_search passing      *)
(*   loop -> stage -> stage_penalized -> stage_scaled -> loop,             *)
(* or panicked from any step that fails fatally.                           *)
(***************************************************************************)
Init ==
    /\ pc = "idle"
    /\ cfg \in Configurations
    /\ input_ids = <<>>
    /\ attention_mask = <<>>
    /\ batch_size = 0
    /\ cur_len = 0
    /\ forward_calls = 0
    /\ steps = 0
    /\ step_logits = <<>>
    /\ penalized_logits = <<>>
    /\ next_token_logits = <<>>
    /\ result = NoneOpt

\* let input_ids = match prompt_text { ... }
EncodePrompt ==
    /\ pc = "idle"
    /\ LET init == InitialInput(cfg.prompt_text, cfg.generator, cfg.max_length)
       IN  IF IsSome(init)
           THEN /\ input_ids' = Unwrap(init)
                /\ pc' = "encoded"
           ELSE /\ input_ids' = input_ids
                /\ pc' = "panicked"
    /\ UNCHANGED <<cfg, attention_mask, batch_size, cur_len, forward_calls, steps,
                   step_logits, penalized_logits, next_token_logits, result>>

\* the assertions on the configuration
Validate ==
    /\ pc = "encoded"
    /\ pc' = IF ValidConfiguration(cfg) THEN "validated" ELSE "panicked"
    /\ UNCHANGED <<cfg, input_ids, attention_mask, batch_size, cur_len, forward_calls,
                   steps, step_logits, penalized_logits, next_token_logits, result>>

\* cur_len, batch_size, the attention mask and the expansion of both tensors
Expand ==
    /\ pc = "validated"
    /\ cur_len' = Width(input_ids)
    /\ batch_size' = Len(input_ids)
    /\ LET mask == InitialMask(cfg.attention_mask, cfg.generator, input_ids)
           ex   == ExpandBatch(input_ids, mask, cfg)
       IN  IF IsSome(ex)
           THEN /\ input_ids' = Unwrap(ex)[1]
                /\ attention_mask' = Unwrap(ex)[2]
                /\ pc' = "loop"
           ELSE /\ UNCHANGED <<input_ids, attention_mask>>
                /\ pc' = "panicked"
    /\ UNCHANGED <<cfg, forward_calls, steps, step_logits, penalized_logits,
                   next_token_logits, result>>

\* The head of an iteration of the while loop of generate_no_beam_search:
\* the loop condition holds, the model input is prepared from input_ids, the
\* model is invoked and the logits of the last position are selected.
Forward ==
    /\ pc = "loop"
    /\ LoopCondition(cur_len, cfg.max_length)
    /\ forward_calls' = forward_calls + 1
    /\ \E out \in ForwardOutcomes(input_ids) :
          IF IsSome(out)
          THEN /\ step_logits' = Unwrap(out)
               /\ pc' = "stage"
          ELSE /\ step_logits' = step_logits
               /\ pc' = "panicked"
    /\ UNCHANGED <<cfg, input_ids, attention_mask, batch_size, cur_len, steps,
                   penalized_logits, next_token_logits, result>>

\* the repetition penalty stage of the iteration
StagePenalty ==
    /\ pc = "stage"
    /\ LET penalized == RepetitionPenaltyStage(step_logits, batch_size, input_ids,
                                               cfg.repetition_penalty)
       IN  IF IsSome(penalized)
           THEN /\ penalized_logits' = Unwrap(penalized)
                /\ pc' = "stage_penalized"
           ELSE /\ penalized_logits' = penalized_logits
                /\ pc' = "panicked"
    /\ UNCHANGED <<cfg, input_ids, attention_mask, batch_size, cur_len, forward_calls,
                   steps, step_logits, next_token_logits, result>>

\* the temperature stage of the iteration
StageTemperature ==
    /\ pc = "stage_penalized"
    /\ next_token_logits' = TemperatureStage(penalized_logits, cfg.do_sample, cfg.temperature)
    /\ pc' = "stage_scaled"
    /\ UNCHANGED <<cfg, input_ids, attention_mask, batch_size, cur_len, forward_calls,
                   steps, step_logits, penalized_logits, result>>

\* The tail of the iteration: input_ids is restored from input_ids_back (the
\* copy taken before the loop, so it is unchanged) and cur_len is incremented.
StepEnd ==
    /\ pc = "stage_scaled"
    /\ input_ids' = input_ids
    /\ cur_len' = cur_len + 1
    /\ steps' = steps + 1
    /\ pc' = "loop"
    /\ UNCHANGED <<cfg, attention_mask, batch_size, forward_calls, step_logits,
                   penalized_logits, next_token_logits, result>>

\* The loop condition fails: generate_no_beam_search returns and generate
\* returns Tensor::new(), a tensor without rows.
Return ==
    /\ pc = "loop"
    /\ ~LoopCondition(cur_len, cfg.max_length)
    /\ result' = Some(<<>>)
    /\ pc' = "returned"
    /\ UNCHANGED <<cfg, input_ids, attention_mask, batch_size, cur_len, forward_calls,
                   steps, step_logits, penalized_logits, next_token_logits>>

Next ==
    \/ EncodePrompt \/ Validate \/ Expand
    \/ Forward \/ StagePenalty \/ StageTemperature \/ StepEnd
    \/ Return

Spec == Init /\ [][Next]_vars

(***************************************************************************)
(* generate_no_beam_search called directly.  It is a method of the public  *)
(* trait, and it takes input_ids, cur_len and batch_size as independent    *)
(* arguments and checks none of them: the loop body runs when cur_len is   *)
(* 0, whatever the rows hold, and the stages then work on rows with a      *)
(* history.  (Through generate the loop body only ever sees empty rows.)   *)
(***************************************************************************)
NoBeamSearchBatches ==
    UNION {[1 .. r -> [1 .. n -> TokenIds]] : r \in 1 .. MaxRows, n \in 0 .. MaxHistory}

\* temperature is positive, as the assertion of generate has it (the stage
\* divides by it); no other argument is constrained.
NoBeamSearchConfigurations ==
    [generator : Generators,
     prompt_text : {NoneOpt},
     max_length : {MaxLength},
     do_sample : BOOLEAN,
     num_beams : {1},
     temperature : TemperatureValues \ {Zero},
     top_p : {One},
     repetition_penalty : RepetitionPenaltyValues,
     length_penalty : {One},
     num_return_sequences : {1},
     attention_mask : {NoneOpt}]

NoBeamSearchInit ==
    /\ pc = "loop"
    /\ cfg \in NoBeamSearchConfigurations
    /\ input_ids \in NoBeamSearchBatches
    /\ attention_mask = OnesLike(input_ids)
    /\ batch_size \in 1 .. (Len(input_ids) + 1)
    /\ cur_len \in {0, Width(input_ids)}
    /\ forward_calls = 0
    /\ steps = 0
    /\ step_logits = <<>>
    /\ penalized_logits = <<>>
    /\ next_token_logits = <<>>
    /\ result = NoneOpt

\* The loop condition fails: generate_no_beam_search returns ().
NoBeamSearchReturn ==
    /\ pc = "loop"
    /\ ~LoopCondition(cur_len, cfg.max_length)
    /\ pc' = "done"
    /\ UNCHANGED <<cfg, input_ids, attention_mask, batch_size, cur_len, forward_calls,
                   steps, step_logits, penalized_logits, next_token_logits, result>>

NoBeamSearchNext ==
    \/ Forward \/ StagePenalty \/ StageTemperature \/ StepEnd
    \/ NoBeamSearchReturn

NoBeamSearchSpec == NoBeamSearchInit /\ [][NoBeamSearchNext]_vars

(***************************************************************************)
(* Properties.                                                             *)
(***************************************************************************)
\* The configuration of the call breaks one of the rules of section 7.
ConfigurationViolates ==
    \/ RLe(cfg.temperature, Zero)
    \/ RLt(cfg.top_p, Zero)
    \/ RLt(One, cfg.top_p)
    \/ RLt(cfg.repetition_penalty, One)
    \/ RLe(cfg.length_penalty, Zero)
    \/ cfg.num_return_sequences < 1
    \/ cfg.num_beams < 1
    \/ (~cfg.do_sample /\ cfg.num_beams = 1 /\ cfg.num_return_sequences # 1)
    \/ (~cfg.do_sample /\ cfg.num_beams > 1 /\ cfg.num_return_sequences > cfg.num_beams)

\* The single row generate starts from (defined when the call has one).
InitialRow == Unwrap(InitialInput(cfg.prompt_text, cfg.generator, cfg.max_length))[1]

\* C1: a generate call whose configuration violates a validation rule never
\* gets past validation: it invokes the model zero times, returns no result
\* and, once the assertions have run, has failed fatally.
C1_InvalidConfigurationFailsBeforeForward ==
    ConfigurationViolates =>
        /\ forward_calls = 0
        /\ result = NoneOpt
        /\ pc \in {"idle", "encoded", "panicked"}

\* C1 witness: greedy decoding with one beam and two return sequences, all
\* else valid and a prompt given, has failed with no model invocation.
C1_Witness ==
    /\ pc = "panicked"
    /\ IsSome(cfg.prompt_text)
    /\ ~cfg.do_sample /\ cfg.num_beams = 1 /\ cfg.num_return_sequences = 2
    /\ cfg.temperature = One /\ cfg.top_p = One
    /\ cfg.repetition_penalty = One /\ cfg.length_penalty = One
    /\ forward_calls = 0

\* C2: a call without prompt text on a generator without bos id fails
\* fatally at the first step, whatever the configuration: no model
\* invocation, no result.
C2_NoPromptNoBosFails ==
    (cfg.prompt_text = NoneOpt /\ get_bos_id(cfg.generator) = NoneOpt) =>
        /\ forward_calls = 0
        /\ result = NoneOpt
        /\ pc \in {"idle", "panicked"}

\* C2 witness: such a call, with an otherwise valid configuration, has failed.
C2_Witness ==
    /\ pc = "panicked"
    /\ cfg.prompt_text = NoneOpt
    /\ cfg.generator = "OpenAIGenerator"
    /\ ~ConfigurationViolates
    /\ forward_calls = 0

\* C4 as claimed: a successful call returns exactly num_return_sequences
\* sequences.
C4_ReturnsRSequences ==
    pc = "returned" => Len(Unwrap(result)) = cfg.num_return_sequences

\* C5 as claimed: every returned sequence begins with the initial row, and a
\* call without prompt on a generator with a bos id returns a row that
\* begins with that bos id.
C5_ReturnedRowsBeginWithInitialRow ==
    pc = "returned" =>
        LET rows == Unwrap(result)
        IN  /\ \A i \in 1 .. Len(rows) :
                  /\ Len(rows[i]) >= Len(InitialRow)
                  /\ SubSeq(rows[i], 1, Len(InitialRow)) = InitialRow
            /\ (cfg.prompt_text = NoneOpt =>
                  \E i \in 1 .. Len(rows) :
                      Len(rows[i]) >= 1 /\ rows[i][1] = Unwrap(get_bos_id(cfg.generator)))

\* C7 as claimed: the number of model forward invocations of a call never
\* exceeds max_length.
C7_ForwardCallsBoundedByMaxLength == forward_calls <= cfg.max_length

\* The token batch and the attention mask are as the batch expansion
\* property describes them.
ExpandedAsClaimed ==
    /\ Len(input_ids) =
          IF cfg.do_sample
          THEN batch_size * cfg.num_return_sequences * cfg.num_beams
          ELSE batch_size * cfg.num_beams
    /\ \A i \in 1 .. Len(input_ids) : input_ids[i] = InitialRow
    /\ Len(attention_mask) = Len(input_ids)
    /\ \A i \in 1 .. Len(attention_mask) : Len(attention_mask[i]) = Len(input_ids[i])

\* generate is past its batch expansion: in the decoding loop or returned.
AfterExpansion ==
    pc \in {"loop", "stage", "stage_penalized", "stage_scaled", "returned"}

\* C8 as claimed: after batch expansion and at every later step, the token
\* batch has batch_size * R * B rows when sampling and batch_size * B rows
\* otherwise, each equal to the initial row, and the attention mask has the
\* shape of the token batch.
C8_ExpansionShapes == AfterExpansion => ExpandedAsClaimed

\* C8 amended: the same, for calls in which the caller passes no attention
\* mask or one of the shape of the encoded input (one row of cur_len
\* entries).
C8_ExpansionShapesGivenMask ==
    (/\ AfterExpansion
     /\ \/ cfg.attention_mask = NoneOpt
        \/ /\ Len(Unwrap(cfg.attention_mask)) = 1
           /\ Len(Unwrap(cfg.attention_mask)[1]) = Len(InitialRow))
    => ExpandedAsClaimed

\* C8 witness: a sampling call with two return sequences and two beams on a
\* prompt of two tokens, with a caller-supplied mask, is in the decoding
\* loop with four rows.
C8_Witness ==
    /\ pc = "loop"
    /\ cfg.do_sample /\ cfg.num_return_sequences = 2 /\ cfg.num_beams = 2
    /\ IsSome(cfg.attention_mask)
    /\ Len(input_ids) = 4
    /\ Len(InitialRow) = 2
    /\ Len(attention_mask) = 4

\* C10 as claimed: a call whose initial row is shorter than max_length
\* (no row ever emits an eos token: no token is ever selected) leaves the
\* loop after exactly max_length - L steps, and after every step each row's
\* length equals the current-length counter.
C10_LoopRunsToMaxLength ==
    /\ (pc = "returned" /\ Len(InitialRow) < cfg.max_length) =>
            steps = cfg.max_length - Len(InitialRow)
    /\ (pc \in {"loop", "returned"} /\ steps > 0) =>
            \A i \in 1 .. Len(input_ids) : Len(input_ids[i]) = cur_len

\* The tokens of a row's history.
History(i) == {input_ids[i][j] : j \in 1 .. Len(input_ids[i])}

\* C6 as claimed: with repetition_penalty p > 1, after the penalty stage the
\* logit of every token in a row's history is the pre-stage logit divided by
\* p if that was >= 0 and multiplied by p otherwise, and every other logit
\* is unchanged, for every row of the batch.
C6_PenaltyOncePerHistoryToken ==
    (pc = "stage_penalized" /\ RLt(One, cfg.repetition_penalty)) =>
        \A i \in 1 .. Len(step_logits) : \A t \in TokenIds :
            penalized_logits[i][t] =
                IF t \in History(i)
                THEN IF RLe(Zero, step_logits[i][t])
                     THEN RDiv(step_logits[i][t], cfg.repetition_penalty)
                     ELSE RMul(step_logits[i][t], cfg.repetition_penalty)
                ELSE step_logits[i][t]

\* C9 as claimed: the temperature stage divides the logits by temperature
\* exactly when do_sample holds and temperature differs from 1, and leaves
\* them unchanged otherwise.
C9_TemperatureWhenNotOne ==
    pc = "stage_scaled" =>
        next_token_logits =
            IF cfg.do_sample /\ cfg.temperature # One
            THEN DivAll(penalized_logits, cfg.temperature)
            ELSE penalized_logits

====
